---------------------------- MODULE Spec2Model ----------------------------
(***************************************************************************)
(* Model of the rejection-batch pipeline (kncag/python-code-tune-up):      *)
(*   - parseAmount (three copies), sliceFixed, the two PDF record-number   *)
(*     extractors,                                                         *)
(*   - the request handlers process-pre-bcp-txt, process-pre-bcp-xlsx and  *)
(*     process-rechazo-ibk.                                                *)
(* Strings are sequences of one-character strings.  JavaScript values are  *)
(* tagged records (JStr, JNum, JNull, JUndef).  Numbers are exact decimals *)
(* n * 10^-e, kept normalised, plus NaN.                                   *)
(***************************************************************************)
EXTENDS Integers, Sequences, FiniteSets, TLC

VARIABLES
    op,        \* the function or handler this run exercises
    pc,        \* position inside it
    arg,       \* the inputs (call arguments, or the request's form data)
    ret,       \* results of a pure call
    local,     \* the handler's local variables
    response,  \* the HTTP response, once returned
    disk       \* temporary files and directories present on disk

vars == <<op, pc, arg, ret, local, response, disk>>

(***************************************************************************)
(* JavaScript values                                                       *)
(***************************************************************************)
JNull == [t |-> "null"]
JUndef == [t |-> "undefined"]
JStr(s) == [t |-> "str", v |-> s]
JNum(d) == [t |-> "num", v |-> d]

(***************************************************************************)
(* Numbers: [k |-> "fin", n |-> signed integer, e |-> decimals] denotes    *)
(* n / 10^e; NaN is the failed conversion.                                 *)
(***************************************************************************)
NaN == [k |-> "nan", n |-> 0, e |-> 0]

RECURSIVE Normalize(_, _)
Normalize(n, e) ==
    IF e > 0 /\ n % 10 = 0 THEN Normalize(n \div 10, e - 1)
    ELSE [k |-> "fin", n |-> n, e |-> e]

Dec(n, e) == Normalize(n, e)
Zero == Dec(0, 0)

RECURSIVE Pow10(_)
Pow10(k) == IF k = 0 THEN 1 ELSE 10 * Pow10(k - 1)

Max(a, b) == IF a >= b THEN a ELSE b
Min(a, b) == IF a <= b THEN a ELSE b

\* a + b on numbers (NaN is absorbing), as the reduce callback sum + row.importe
AddNum(a, b) ==
    IF a.k = "nan" \/ b.k = "nan" THEN NaN
    ELSE LET e == Max(a.e, b.e)
         IN Normalize(a.n * Pow10(e - a.e) + b.n * Pow10(e - b.e), e)

(***************************************************************************)
(* Characters and strings                                                  *)
(***************************************************************************)
DigitChars == <<"0", "1", "2", "3", "4", "5", "6", "7", "8", "9">>
IsDigit(c) == \E i \in 1..10 : DigitChars[i] = c
DigitVal(c) == (CHOOSE i \in 1..10 : DigitChars[i] = c) - 1

WhiteSpace == {" ", "\t", "\r", "\n"}

\* String.prototype.includes for a single character
Includes(s, c) == \E i \in 1..Len(s) : s[i] = c

\* s.replace(/c/g, "") and s.replace(/c/g, d)
RemoveAll(s, c) == SelectSeq(s, LAMBDA x : x # c)
ReplaceAll(s, c, d) == [i \in 1..Len(s) |-> IF s[i] = c THEN d ELSE s[i]]

\* String.prototype.split(sep) for a one-character separator: always >= 1 part
Split(s, sep) ==
    LET cuts == {i \in 1..Len(s) : s[i] = sep}
        bound == <<0>> \o [k \in 1..Cardinality(cuts) |->
                     CHOOSE i \in cuts : Cardinality({j \in cuts : j < i}) = k - 1]
                 \o <<Len(s) + 1>>
    IN [k \in 1..(Cardinality(cuts) + 1) |-> SubSeq(s, bound[k] + 1, bound[k + 1] - 1)]

RECURSIVE Concat(_)
Concat(ss) == IF ss = <<>> THEN <<>> ELSE Head(ss) \o Concat(Tail(ss))

\* String.prototype.trim
Trim(s) ==
    LET keep == {i \in 1..Len(s) : s[i] \notin WhiteSpace}
    IN IF keep = {} THEN <<>>
       ELSE SubSeq(s, CHOOSE i \in keep : \A j \in keep : i <= j,
                      CHOOSE i \in keep : \A j \in keep : i >= j)

\* the longest prefix of s made of digits
DigitPrefix(s) ==
    LET stop == {i \in 1..Len(s) : ~IsDigit(s[i])}
    IN IF stop = {} THEN s
       ELSE SubSeq(s, 1, (CHOOSE i \in stop : \A j \in stop : i <= j) - 1)

RECURSIVE DigitsValue(_, _)
DigitsValue(s, acc) ==
    IF s = <<>> THEN acc ELSE DigitsValue(Tail(s), 10 * acc + DigitVal(Head(s)))

\* parseInt of a run of digits
parseInt(s) == DigitsValue(s, 0)

RECURSIVE NatDigits(_)
NatDigits(n) == IF n < 10 THEN <<DigitChars[n + 1]>>
                ELSE NatDigits(n \div 10) \o <<DigitChars[(n % 10) + 1]>>

RECURSIVE Zeros(_)
Zeros(k) == IF k <= 0 THEN <<>> ELSE <<"0">> \o Zeros(k - 1)

\* String(x) of a finite number in plain decimal notation
NumToString(d) ==
    LET mag == IF d.n < 0 THEN 0 - d.n ELSE d.n
        ds == NatDigits(mag)
        padded == Zeros(d.e + 1 - Len(ds)) \o ds
        ip == SubSeq(padded, 1, Len(padded) - d.e)
        fp == SubSeq(padded, Len(padded) - d.e + 1, Len(padded))
    IN (IF d.n < 0 THEN <<"-">> ELSE <<>>) \o ip
       \o (IF d.e > 0 THEN <<".">> \o fp ELSE <<>>)

\* String(x)
ToStr(x) ==
    CASE x.t = "str" -> x.v
      [] x.t = "num" -> IF x.v.k = "nan" THEN <<"N", "a", "N">> ELSE NumToString(x.v)
      [] x.t = "null" -> <<"n", "u", "l", "l">>
      [] OTHER -> <<"u", "n", "d", "e", "f", "i", "n", "e", "d">>

\* truthiness: "", 0, NaN, null and undefined are falsy
Truthy(x) ==
    CASE x.t = "str" -> x.v # <<>>
      [] x.t = "num" -> x.v.k = "fin" /\ x.v.n # 0
      [] OTHER -> FALSE

\* x || y
OrElse(x, y) == IF Truthy(x) THEN x ELSE y

(***************************************************************************)
(* parseFloat on the strings the amount filter leaves (digits, '.', ',',   *)
(* '-'): optional sign, digits, optional '.', digits; the longest such     *)
(* prefix is converted, and no digit at all gives NaN.                     *)
(***************************************************************************)
parseFloat(s) ==
    LET t == Trim(s)
        signed == Len(t) > 0 /\ t[1] \in {"-", "+"}
        neg == Len(t) > 0 /\ t[1] = "-"
        body == IF signed THEN Tail(t) ELSE t
        ip == DigitPrefix(body)
        rest == SubSeq(body, Len(ip) + 1, Len(body))
        fp == IF Len(rest) > 0 /\ rest[1] = "." THEN DigitPrefix(Tail(rest)) ELSE <<>>
        mag == DigitsValue(ip \o fp, 0)
    IN IF Len(ip) = 0 /\ Len(fp) = 0 THEN NaN
       ELSE Dec(IF neg THEN 0 - mag ELSE mag, Len(fp))

\* x || 0.0 on a number: NaN and 0 are falsy
OrZero(f) == IF f.k = "nan" \/ f.n = 0 THEN Zero ELSE f

\* the character class [^\d,.-] removes everything but these
AmountChar(c) == IsDigit(c) \/ c \in {",", ".", "-"}

\* parts.slice(0, -1).join("")
JoinButLast(parts) == Concat(SubSeq(parts, 1, Len(parts) - 1))

\* process-pre-bcp-txt: parseAmount(raw: string)
parseAmountTxt(raw) ==
    IF raw = <<>> THEN Zero
    ELSE LET s0 == SelectSeq(raw, AmountChar)
             s1 == IF Includes(s0, ".") /\ Includes(s0, ",")
                   THEN ReplaceAll(RemoveAll(s0, "."), ",", ".")
                   ELSE IF Includes(s0, ",") THEN ReplaceAll(s0, ",", ".")
                   ELSE s0
             parts == Split(s1, ".")
             s2 == IF Len(parts) > 2
                   THEN JoinButLast(parts) \o <<".">> \o parts[Len(parts)]
                   ELSE s1
         IN OrZero(parseFloat(s2))

\* process-pre-bcp-xlsx: parseAmount(raw: any)
parseAmountXlsx(raw) ==
    IF raw.t = "null" \/ raw.t = "undefined" THEN Zero
    ELSE LET s == SelectSeq(ToStr(raw), AmountChar)
             cleaned0 == IF Includes(s, ".") /\ Includes(s, ",")
                         THEN ReplaceAll(RemoveAll(s, "."), ",", ".")
                         ELSE IF Includes(s, ",") THEN ReplaceAll(s, ",", ".")
                         ELSE s
             parts == Split(cleaned0, ".")
             cleaned == IF Len(parts) > 2
                        THEN JoinButLast(parts) \o <<".">> \o parts[Len(parts)]
                        ELSE cleaned0
         IN OrZero(parseFloat(cleaned))

\* a copy that forgets to collapse the remaining '.' separators
parseAmountIbkNoCollapse(raw) ==
    IF raw.t = "null" \/ raw.t = "undefined" THEN Zero
    ELSE LET s == SelectSeq(ToStr(raw), AmountChar)
             cleaned0 == IF Includes(s, ".") /\ Includes(s, ",")
                         THEN ReplaceAll(RemoveAll(s, "."), ",", ".")
                         ELSE IF Includes(s, ",") THEN ReplaceAll(s, ",", ".")
                         ELSE s
         IN OrZero(parseFloat(cleaned0))

\* process-rechazo-ibk: parseAmount(raw: any)
parseAmountIbk(raw) ==
    IF raw.t = "null" \/ raw.t = "undefined" THEN Zero
    ELSE LET s == SelectSeq(ToStr(raw), AmountChar)
             cleaned0 == IF Includes(s, ".") /\ Includes(s, ",")
                         THEN ReplaceAll(RemoveAll(s, "."), ",", ".")
                         ELSE IF Includes(s, ",") THEN ReplaceAll(s, ",", ".")
                         ELSE s
             parts == Split(cleaned0, ".")
             cleaned == IF Len(parts) > 2
                        THEN JoinButLast(parts) \o <<".">> \o parts[Len(parts)]
                        ELSE cleaned0
         IN OrZero(parseFloat(cleaned))

(***************************************************************************)
(* sliceFixed                                                              *)
(***************************************************************************)
\* String.prototype.slice(b, e): negative indices count from the end
Slice(s, b, e) ==
    LET from == IF b < 0 THEN Max(Len(s) + b, 0) ELSE Min(b, Len(s))
        to == IF e < 0 THEN Max(Len(s) + e, 0) ELSE Min(e, Len(s))
    IN SubSeq(s, from + 1, to)

sliceFixedNoFloor(line, start, end) ==
    IF line = <<>> THEN <<>>
    ELSE LET idx == start - 1
         IN IF idx < Len(line) THEN Trim(Slice(line, idx, end)) ELSE <<>>

sliceFixed(line, start, end) ==
    IF line = <<>> THEN <<>>
    ELSE LET idx == Max(0, start - 1)
         IN IF idx < Len(line) THEN Trim(Slice(line, idx, end)) ELSE <<>>

(***************************************************************************)
(* The record-number extractors.  The PDF file is modelled by its decoded  *)
(* text (TextDecoder().decode(pdfBuffer)).                                 *)
(***************************************************************************)
RegistroWord == <<"R", "e", "g", "i", "s", "t", "r", "o">>

\* the quantifier {1,5} of /Registro\s+(\d{1,5})/g
MaxDigits == 5

\* the number of whitespace characters of `text` from position i on (\s+)
SpaceRun(text, i) ==
    LET stop == {j \in i..Len(text) : text[j] \notin WhiteSpace}
    IN IF stop = {} THEN Max(Len(text) - i + 1, 0)
       ELSE (CHOOSE j \in stop : \A k \in stop : j <= k) - i

\* the number of digits of `text` from position i on (\d+)
DigitRun(text, i) ==
    LET stop == {j \in i..Len(text) : ~IsDigit(text[j])}
    IN IF stop = {} THEN Max(Len(text) - i + 1, 0)
       ELSE (CHOOSE j \in stop : \A k \in stop : j <= k) - i

\* [...text.matchAll(/Registro\s+(\d{1,limit})/g)].map(m => m[1]); limit 0 stands for \d+
RECURSIVE MatchAll(_, _, _)
MatchAll(text, i, limit) ==
    IF i > Len(text) THEN <<>>
    ELSE LET w == Len(RegistroWord)
             word == i + w - 1 <= Len(text) /\ SubSeq(text, i, i + w - 1) = RegistroWord
             ws == SpaceRun(text, i + w)
             run == DigitRun(text, i + w + ws)
             ds == IF limit > 0 THEN Min(run, limit) ELSE run
         IN IF word /\ ws >= 1 /\ ds >= 1
            THEN <<SubSeq(text, i + w + ws, i + w + ws + ds - 1)>>
                 \o MatchAll(text, i + w + ws + ds, limit)
            ELSE MatchAll(text, i + 1, limit)

\* Array.from(new Set(xs)): first occurrences, in order
RECURSIVE Dedupe(_)
Dedupe(xs) ==
    IF xs = <<>> THEN <<>>
    ELSE LET init == Dedupe(SubSeq(xs, 1, Len(xs) - 1))
             last == xs[Len(xs)]
         IN IF \E i \in 1..Len(init) : init[i] = last THEN init ELSE Append(init, last)

\* xs.sort((a, b) => a - b)
RECURSIVE SortAsc(_)
SortAsc(xs) ==
    IF xs = <<>> THEN <<>>
    ELSE LET rest == SortAsc(Tail(xs))
             x == Head(xs)
             before == SelectSeq(rest, LAMBDA y : y <= x)
             after == SelectSeq(rest, LAMBDA y : y > x)
         IN before \o <<x>> \o after

\* the extractor without new Set(...)
extractRegistrosKeepDuplicates(pdfText) ==
    LET matches == MatchAll(pdfText, 1, MaxDigits)
    IN SortAsc([k \in 1..Len(matches) |-> parseInt(matches[k])])

\* process-pre-bcp-txt: extractRegistrosFromPdf
extractRegistrosFromPdf(pdfText) ==
    LET matches == MatchAll(pdfText, 1, MaxDigits)
        registros == Dedupe([k \in 1..Len(matches) |-> parseInt(matches[k])])
    IN SortAsc(registros)

\* process-pre-bcp-xlsx: extractRowNumbersFromPdf
extractRowNumbersFromPdf(pdfText) ==
    LET matches == MatchAll(pdfText, 1, 0)
        rowNumbers == Dedupe([k \in 1..Len(matches) |-> parseInt(matches[k]) + 1])
    IN SortAsc(rowNumbers)

(***************************************************************************)
(* Bounded inputs of the pure functions                                    *)
(***************************************************************************)
MaxAmountLen == 4
MaxLineLen == 4
MaxCol == 5

SeqsUpTo(A, n) == UNION {[1..k -> A] : k \in 0..n}

AmountAlphabet == {"0", "5", ".", ",", "-", "a"}

DocumentedAmounts ==
    { <<"1", ".", "2", "3", "4", ",", "5", "6">>,
      <<"1", ",", "2", "3", "4", ".", "5", "6">>,
      <<"1", "2", "3", "4", ",", "5", "6">>,
      <<>>,
      <<"a", "b", "c">>,
      <<"-", "5">>,
      <<"S", "/", " ", "1", ".", "0", "0", "0", ".", "0", "0", "0", ",", "5">> }

AmountStrings == SeqsUpTo(AmountAlphabet, MaxAmountLen) \cup DocumentedAmounts

\* spreadsheet cells that are not strings: numbers and absent cells
AmountCells ==
    { JNum(Dec(123456, 2)), JNum(Dec(0 - 5, 0)), JNum(Dec(5, 1)), JNum(Zero),
      JNull, JUndef }

LineAlphabet == {"A", "B", " "}

ShortLine == [i \in 1..40 |-> IF i % 7 = 0 THEN " " ELSE "A"]

SliceArgs ==
    { [line |-> l, start |-> s, end |-> e] :
        l \in SeqsUpTo(LineAlphabet, MaxLineLen), s \in 0..MaxCol, e \in 0..MaxCol }
    \cup { [line |-> <<>>, start |-> 1, end |-> 5],
           [line |-> <<"A", "B">>, start |-> 1, end |-> 10],
           [line |-> ShortLine, start |-> 200, end |-> 210],
           [line |-> ShortLine, start |-> 25, end |-> 33] }

MaxChunks == 6

PdfChunks == {RegistroWord, <<" ">>, <<"0">>, <<"1">>}

Dots == <<" ", ".", ".", ".", " ">>

\* "Registro 3 ... Registro 1 ... Registro 3", and markers with long digit runs
DocumentedTexts ==
    { RegistroWord \o <<" ", "3">> \o Dots \o RegistroWord \o <<" ", "1">> \o Dots
        \o RegistroWord \o <<" ", "3">>,
      RegistroWord \o <<" ", "1", "2", "3", "4", "5", "6">>,
      RegistroWord \o <<"\n", "\t", "1", "0">> \o RegistroWord \o <<" ", "2">>
        \o <<"R", "e", "g", "i", "s", "t", "r", "o", "s", " ", "7">> }

PdfTexts == {Concat(cs) : cs \in SeqsUpTo(PdfChunks, MaxChunks)} \cup DocumentedTexts

Idle == [none |-> TRUE]

(***************************************************************************)
(* SpecAmount: one call of parseAmount, in each copy                       *)
(***************************************************************************)
InitAmount ==
    /\ op = "parseAmount"
    /\ pc = "call"
    /\ arg \in {JStr(s) : s \in AmountStrings} \cup AmountCells
    /\ ret = Idle
    /\ local = Idle
    /\ response = Idle
    /\ disk = {}

\* a string reaches all three copies
ParseAmountString ==
    /\ op = "parseAmount" /\ pc = "call" /\ arg.t = "str"
    /\ ret' = [txt |-> parseAmountTxt(arg.v),
               xlsx |-> parseAmountXlsx(arg),
               ibk |-> parseAmountIbk(arg)]
    /\ pc' = "done"
    /\ UNCHANGED <<op, arg, local, response, disk>>

\* a number or an absent cell reaches the two spreadsheet copies (raw: any)
ParseAmountCell ==
    /\ op = "parseAmount" /\ pc = "call" /\ arg.t # "str"
    /\ ret' = [xlsx |-> parseAmountXlsx(arg), ibk |-> parseAmountIbk(arg)]
    /\ pc' = "done"
    /\ UNCHANGED <<op, arg, local, response, disk>>

NextAmount == ParseAmountString \/ ParseAmountCell

SpecAmount == InitAmount /\ [][NextAmount]_vars

(***************************************************************************)
(* SpecSlice: one call of sliceFixed                                       *)
(***************************************************************************)
InitSlice ==
    /\ op = "sliceFixed"
    /\ pc = "call"
    /\ arg \in SliceArgs
    /\ ret = Idle
    /\ local = Idle
    /\ response = Idle
    /\ disk = {}

SliceFixedCall ==
    /\ op = "sliceFixed" /\ pc = "call"
    /\ ret' = [value |-> sliceFixed(arg.line, arg.start, arg.end)]
    /\ pc' = "done"
    /\ UNCHANGED <<op, arg, local, response, disk>>

NextSlice == SliceFixedCall

SpecSlice == InitSlice /\ [][NextSlice]_vars

(***************************************************************************)
(* SpecRegistro: both extractors run on one text, then run again           *)
(***************************************************************************)
InitRegistro ==
    /\ op = "extract"
    /\ pc = "call"
    /\ arg \in {[text |-> t] : t \in PdfTexts}
    /\ ret = Idle
    /\ local = Idle
    /\ response = Idle
    /\ disk = {}

ExtractCall ==
    /\ op = "extract" /\ pc = "call"
    /\ ret' = [registros |-> extractRegistrosFromPdf(arg.text),
               rowNumbers |-> extractRowNumbersFromPdf(arg.text)]
    /\ pc' = "once"
    /\ UNCHANGED <<op, arg, local, response, disk>>

ExtractAgain ==
    /\ op = "extract" /\ pc = "once"
    /\ ret' = [registros |-> ret.registros,
               rowNumbers |-> ret.rowNumbers,
               registros2 |-> extractRegistrosFromPdf(arg.text),
               rowNumbers2 |-> extractRowNumbersFromPdf(arg.text)]
    /\ pc' = "twice"
    /\ UNCHANGED <<op, arg, local, response, disk>>

NextRegistro == ExtractCall \/ ExtractAgain

SpecRegistro == InitRegistro /\ [][NextRegistro]_vars

(***************************************************************************)
(* Records and responses shared by the three handlers                      *)
(***************************************************************************)
ESTADO == JStr(<<"r", "e", "c", "h", "a", "z", "a", "d", "a">>)

\* the object literal pushed to rows
Record(dni, nombre, importe, ref, code, desc) ==
    [k \in {"dni/cex", "nombre", "importe", "Referencia", "Estado",
            "Codigo de Rechazo", "Descripcion de Rechazo"} |->
        CASE k = "dni/cex" -> dni
          [] k = "nombre" -> nombre
          [] k = "importe" -> JNum(importe)
          [] k = "Referencia" -> ref
          [] k = "Estado" -> ESTADO
          [] k = "Codigo de Rechazo" -> code
          [] OTHER -> desc]

\* rows.reduce((sum, row) => sum + row.importe, 0), dropping the first row
RECURSIVE SumImporteSkipFirst(_)
SumImporteSkipFirst(rows) ==
    IF Len(rows) <= 1 THEN Zero
    ELSE AddNum(SumImporteSkipFirst(SubSeq(rows, 1, Len(rows) - 1)), rows[Len(rows)]["importe"].v)

\* rows.reduce((sum, row) => sum + row.importe, 0)
RECURSIVE SumImporte(_)
SumImporte(rows) ==
    IF rows = <<>> THEN Zero
    ELSE AddNum(SumImporte(SubSeq(rows, 1, Len(rows) - 1)), rows[Len(rows)]["importe"].v)

\* new Response(JSON.stringify({results, totalTransactions, totalAmount}), {headers})
SuccessResponse(rows, totalTransactions, totalAmount) ==
    [status |-> 200,
     body |-> [results |-> rows,
               totalTransactions |-> totalTransactions,
               totalAmount |-> totalAmount]]

\* a failure response that also carries an (empty) results list
ErrorResponseWithResults(message) ==
    [status |-> 500, body |-> [error |-> message, results |-> <<>>]]

\* new Response(JSON.stringify({error: message}), {status: 500, headers})
ErrorResponse(message) == [status |-> 500, body |-> [error |-> message]]

\* new Response(null, {headers: corsHeaders})
PreflightResponse == [status |-> 200, body |-> JNull]

(***************************************************************************)
(* Uploaded files.  A request names its files; FileText and SheetData give *)
(* the content of a named file.                                            *)
(***************************************************************************)
MaxReg == 3
MaxLines == 6
MaxRows == 4

NoFile == JNull

\* a PDF whose text holds one marker per listed number
PdfFile(markers) == [t |-> "file", markers |-> markers]

RECURSIVE PdfText(_)
PdfText(markers) ==
    IF markers = <<>> THEN <<"%", "P", "D", "F", "\n">>
    ELSE PdfText(SubSeq(markers, 1, Len(markers) - 1))
         \o RegistroWord \o <<" ">> \o NatDigits(markers[Len(markers)]) \o <<" ", "-", "\n">>

\* the numbers of S, largest first
RECURSIVE Descending(_)
Descending(S) ==
    IF S = {} THEN <<>>
    ELSE LET m == CHOOSE x \in S : \A y \in S : y <= x
         IN <<m>> \o Descending(S \ {m})

\* one PDF per set of record numbers: listed largest first, the largest once more at the end
PdfFiles ==
    { PdfFile(IF S = {} THEN <<>> ELSE Descending(S) \o <<Head(Descending(S))>>) :
        S \in SUBSET (0..MaxReg) }
    \cup { PdfFile(<<5>>) }

\* a fixed-width line: the four fields at their columns, '#' elsewhere
Pad(s, width) == [i \in 1..width |-> IF i <= Len(s) THEN s[i] ELSE " "]

FixedLine(dni, nombre, ref, imp, len) ==
    [i \in 1..len |->
        CASE i >= 25 /\ i <= 33 -> Pad(dni, 9)[i - 24]
          [] i >= 40 /\ i <= 85 -> Pad(nombre, 46)[i - 39]
          [] i >= 115 /\ i <= 126 -> Pad(ref, 12)[i - 114]
          [] i >= 186 /\ i <= 195 -> Pad(imp, 10)[i - 185]
          [] OTHER -> "#"]

AmountTexts ==
    << <<"a", "b", "c">>, <<"1", ".", "2", "3", "4", ",", "5", "6">>, <<" ", "S", "/", " ", "9", "9", ",", "5">>, <<"7">> >>

\* line k (1-based) of every text file; record h = k \div 2 lies on the even line k
LineOf(k) ==
    LET h == k \div 2
        dni == NatDigits(40000000 + k)
        nombre == <<"P", "E", "R", "E", "Z", " ">> \o NatDigits(k)
        ref == <<"F">> \o NatDigits(1000 + k)
        imp == AmountTexts[(h % 4) + 1]
    IN CASE k % 4 = 1 -> <<>>
         [] h % 4 = 3 -> FixedLine(dni, nombre, ref, imp, 120)
         [] OTHER -> FixedLine(dni, nombre, ref, imp, 200)

TxtFile(n, trailing) == [t |-> "file", lines |-> n, trailing |-> trailing]

RECURSIVE JoinLines(_, _)
JoinLines(n, trailing) ==
    IF n = 0 THEN <<>>
    ELSE (IF n = 1 THEN <<>> ELSE JoinLines(n - 1, FALSE) \o <<"\n">>)
         \o LineOf(n) \o (IF trailing THEN <<"\n">> ELSE <<>>)

\* await txtFile.text()
FileText(f) == JoinLines(f.lines, f.trailing)

TxtFiles ==
    { TxtFile(n, b) : n \in 0..MaxLines, b \in BOOLEAN } \cup { TxtFile(10, FALSE) }

CodeFields ==
    { [code |-> JStr(<<"R", "0", "0", "1">>),
       desc |-> JStr(<<"D", "O", "C", "U", "M", "E", "N", "T", "O", " ", "E", "R", "R", "A", "D", "O">>)],
      [code |-> JNull, desc |-> JNull] }

(***************************************************************************)
(* process-pre-bcp-txt                                                     *)
(***************************************************************************)
TXT_POS ==
    [dni |-> [start |-> 25, end |-> 33],
     nombre |-> [start |-> 40, end |-> 85],
     referencia |-> [start |-> 115, end |-> 126],
     importe |-> [start |-> 186, end |-> 195]]

MULT == 2

TxtRequests ==
    { [method |-> m, form |-> FALSE, pdf |-> NoFile, txt |-> NoFile, code |-> JNull,
       desc |-> JNull] : m \in {"OPTIONS", "POST"} }
    \cup { [method |-> "POST", form |-> TRUE, pdf |-> p, txt |-> f, code |-> c.code,
            desc |-> c.desc] :
             p \in PdfFiles \cup {NoFile}, f \in TxtFiles \cup {NoFile}, c \in CodeFields }

InitTxt ==
    /\ op = "txt"
    /\ pc = "start"
    /\ arg \in TxtRequests
    /\ ret = Idle
    /\ local = Idle
    /\ response = Idle
    /\ disk = {}

\* if (req.method === 'OPTIONS') return new Response(null, ...)
TxtOptions ==
    /\ op = "txt" /\ pc = "start" /\ arg.method = "OPTIONS"
    /\ response' = PreflightResponse
    /\ pc' = "done"
    /\ UNCHANGED <<op, arg, ret, local, disk>>

\* formData = await req.formData() (throws on a body that is not form data);
\* formData.get(...); if (!pdfFile || !txtFile) throw new Error('Missing files')
TxtReadForm ==
    /\ op = "txt" /\ pc = "start" /\ arg.method # "OPTIONS"
    /\ IF ~arg.form
       THEN /\ local' = [error |-> "Body can not be decoded as form data"]
            /\ pc' = "catch"
       ELSE IF arg.pdf = NoFile \/ arg.txt = NoFile
       THEN /\ local' = [error |-> "Missing files"]
            /\ pc' = "catch"
       ELSE /\ local' = [code |-> arg.code, desc |-> arg.desc]
            /\ pc' = "extract"
    /\ UNCHANGED <<op, arg, ret, response, disk>>

\* lines = txtContent.split('\n')
TxtLines == Split(FileText(arg.txt), "\n")

\* registros = await extractRegistrosFromPdf(pdfBuffer); indices = registros.map(r => r * MULT).sort(...)
TxtExtract ==
    /\ op = "txt" /\ pc = "extract"
    /\ LET registros == extractRegistrosFromPdf(PdfText(arg.pdf.markers))
           indices == SortAsc([k \in 1..Len(registros) |-> registros[k] * MULT])
       IN local' = [code |-> local.code, desc |-> local.desc,
                    registros |-> registros, indices |-> indices]
    /\ pc' = "build"
    /\ UNCHANGED <<op, arg, ret, response, disk>>

\* the loop with the guard i >= 0 && i < lines.length, reading lines[i]
TxtRowForOffByOne(lines, i, code, desc) ==
    IF i >= 0 /\ i < Len(lines)
    THEN LET ln == lines[i + 1]
             dni == sliceFixed(ln, TXT_POS.dni.start, TXT_POS.dni.end)
             nombre == sliceFixed(ln, TXT_POS.nombre.start, TXT_POS.nombre.end)
             ref == sliceFixed(ln, TXT_POS.referencia.start, TXT_POS.referencia.end)
             impStr == sliceFixed(ln, TXT_POS.importe.start, TXT_POS.importe.end)
             imp == parseAmountTxt(impStr)
         IN <<Record(JStr(dni), JStr(nombre), imp, JStr(ref), code, desc)>>
    ELSE <<>>

\* one iteration of the loop body for index i: the record pushed, if any
TxtRowFor(lines, i, code, desc) ==
    IF i >= 1 /\ i <= Len(lines)
    THEN LET ln == lines[(i - 1) + 1]
             dni == sliceFixed(ln, TXT_POS.dni.start, TXT_POS.dni.end)
             nombre == sliceFixed(ln, TXT_POS.nombre.start, TXT_POS.nombre.end)
             ref == sliceFixed(ln, TXT_POS.referencia.start, TXT_POS.referencia.end)
             impStr == sliceFixed(ln, TXT_POS.importe.start, TXT_POS.importe.end)
             imp == parseAmountTxt(impStr)
         IN <<Record(JStr(dni), JStr(nombre), imp, JStr(ref), code, desc)>>
    ELSE <<>>

\* for (const i of indices) { if (i >= 1 && i <= lines.length) { ... rows.push({...}) } }
TxtRows(lines, indices, code, desc) ==
    Concat([k \in 1..Len(indices) |-> TxtRowFor(lines, indices[k], code, desc)])

TxtBuild ==
    /\ op = "txt" /\ pc = "build"
    /\ local' = [code |-> local.code, desc |-> local.desc,
                 registros |-> local.registros, indices |-> local.indices,
                 rows |-> TxtRows(TxtLines, local.indices, local.code, local.desc)]
    /\ pc' = "respond"
    /\ UNCHANGED <<op, arg, ret, response, disk>>

\* totalTransactions = rows.length; totalAmount = rows.reduce(...); return new Response(...)
TxtRespond ==
    /\ op = "txt" /\ pc = "respond"
    /\ LET totalTransactions == Len(local.rows)
           totalAmount == SumImporte(local.rows)
       IN response' = SuccessResponse(local.rows, totalTransactions, totalAmount)
    /\ pc' = "done"
    /\ UNCHANGED <<op, arg, ret, local, disk>>

\* catch (error) { ... return new Response(JSON.stringify({ error: message }), { status: 500 }) }
TxtCatch ==
    /\ op = "txt" /\ pc = "catch"
    /\ response' = ErrorResponse(local.error)
    /\ pc' = "done"
    /\ UNCHANGED <<op, arg, ret, local, disk>>

NextTxt == TxtOptions \/ TxtReadForm \/ TxtExtract \/ TxtBuild \/ TxtRespond \/ TxtCatch

SpecTxt == InitTxt /\ [][NextTxt]_vars

(***************************************************************************)
(* Spreadsheets: XLSX.utils.sheet_to_json(worksheet, {header: 1,           *)
(* defval: ''}) gives a matrix, a sequence of rows of cells.  JavaScript   *)
(* indices are 0-based: data[i] is Row(data, i), row[j] is Cell(row, j).   *)
(***************************************************************************)
Cell(row, j) == IF j >= 0 /\ j < Len(row) THEN row[j + 1] ELSE JUndef

\* String(x || '')
StringOrEmpty(x) == JStr(ToStr(OrElse(x, JStr(<<>>))))

Empty == JStr(<<>>)

\* row i (0-based) of every PDF-driven sheet
RowOf(i) ==
    LET id == NatDigits(70000000 + i)
        name == <<"R", "U", "I", "Z", " ">> \o NatDigits(i)
        alt == <<"A", "L", "T", " ">> \o NatDigits(i)
        ref == <<"T">> \o NatDigits(500 + i)
    IN CASE i % 4 = 0 ->
              <<JStr(<<"D", "N", "I">>), Empty, Empty, JStr(<<"N", "o", "m", "b", "r", "e">>),
                Empty, Empty, Empty, JStr(<<"R", "e", "f">>), Empty, Empty, Empty, Empty,
                JStr(<<"I", "m", "p", "o", "r", "t", "e">>)>>
         [] i % 4 = 1 ->
              <<JNum(Dec(70000000 + i, 0)), JStr(alt), Empty, JStr(name), Empty, Empty, Empty,
                JStr(ref), Empty, Empty, Empty, Empty, JStr(<<"1", ".", "2", "3", "4", ",", "5", "6">>), Empty>>
         [] i % 4 = 2 ->
              <<JStr(id), JStr(alt), Empty, Empty, Empty, Empty, Empty,
                JNum(Dec(500 + i, 0)), Empty, Empty, Empty, Empty, JNum(Dec(25075, 2))>>
         [] OTHER ->
              <<JNum(Zero), JStr(alt), Empty, JStr(name), Empty>>

ExcelFile(kind, n) == [t |-> "file", kind |-> kind, rows |-> n]

\* the decoded matrix of a readable workbook
SheetData(f) == IF f.kind = "sheet" THEN [k \in 1..f.rows |-> RowOf(k - 1)] ELSE <<>>

ExcelFiles ==
    { ExcelFile("sheet", n) : n \in 0..MaxRows }
    \cup { ExcelFile("unreadable", 0), ExcelFile("nosheets", 0) }

(***************************************************************************)
(* process-pre-bcp-xlsx                                                    *)
(***************************************************************************)
XlsxRequests ==
    { [method |-> m, form |-> FALSE, pdf |-> NoFile, excel |-> NoFile, code |-> JNull,
       desc |-> JNull, lib |-> TRUE] : m \in {"OPTIONS", "POST"} }
    \cup { [method |-> "POST", form |-> TRUE, pdf |-> p, excel |-> f, code |-> c.code,
            desc |-> c.desc, lib |-> l] :
             p \in PdfFiles \cup {NoFile}, f \in ExcelFiles \cup {NoFile}, c \in CodeFields,
             l \in BOOLEAN }

InitXlsx ==
    /\ op = "xlsx"
    /\ pc = "start"
    /\ arg \in XlsxRequests
    /\ ret = Idle
    /\ local = Idle
    /\ response = Idle
    /\ disk = {}

XlsxOptions ==
    /\ op = "xlsx" /\ pc = "start" /\ arg.method = "OPTIONS"
    /\ response' = PreflightResponse
    /\ pc' = "done"
    /\ UNCHANGED <<op, arg, ret, local, disk>>

\* formData = await req.formData() (throws on a body that is not form data);
\* formData.get(...); if (!pdfFile || !excelFile) throw ...; XLSX = await import(...)
XlsxReadForm ==
    /\ op = "xlsx" /\ pc = "start" /\ arg.method # "OPTIONS"
    /\ IF ~arg.form
       THEN /\ local' = [error |-> "Body can not be decoded as form data"]
            /\ pc' = "catch"
       ELSE IF arg.pdf = NoFile \/ arg.excel = NoFile
       THEN /\ local' = [error |-> "Missing files"]
            /\ pc' = "catch"
       ELSE IF ~arg.lib
       THEN /\ local' = [error |-> "import failed"]
            /\ pc' = "catch"
       ELSE /\ local' = [code |-> arg.code, desc |-> arg.desc]
            /\ pc' = "extract"
    /\ UNCHANGED <<op, arg, ret, response, disk>>

\* rowNumbers = await extractRowNumbersFromPdf(pdfBuffer)
XlsxExtract ==
    /\ op = "xlsx" /\ pc = "extract"
    /\ local' = [code |-> local.code, desc |-> local.desc,
                 rowNumbers |-> extractRowNumbersFromPdf(PdfText(arg.pdf.markers))]
    /\ pc' = "read"
    /\ UNCHANGED <<op, arg, ret, response, disk>>

\* workbook = XLSX.read(excelBuffer); data = XLSX.utils.sheet_to_json(worksheet, ...)
XlsxReadWorkbook ==
    /\ op = "xlsx" /\ pc = "read"
    /\ IF arg.excel.kind = "unreadable"
       THEN /\ local' = [error |-> "unreadable workbook"]
            /\ pc' = "catch"
       ELSE /\ local' = [code |-> local.code, desc |-> local.desc,
                         rowNumbers |-> local.rowNumbers,
                         rowCount |-> Len(SheetData(arg.excel))]
            /\ pc' = "build"
    /\ UNCHANGED <<op, arg, ret, response, disk>>

\* the filter with i <= data.length as its upper bound
XlsxValidRowsInclusive(rowNumbers, length) ==
    SelectSeq(rowNumbers, LAMBDA i : i >= 0 /\ i <= length)

\* validRows = rowNumbers.filter(i => i >= 0 && i < data.length)
XlsxValidRows(rowNumbers, length) ==
    SelectSeq(rowNumbers, LAMBDA i : i >= 0 /\ i < length)

\* the object literal built from one selected row
XlsxRecord(row, code, desc) ==
    Record(StringOrEmpty(Cell(row, 0)),
           StringOrEmpty(OrElse(Cell(row, 3), Cell(row, 1))),
           parseAmountXlsx(Cell(row, 12)),
           StringOrEmpty(Cell(row, 7)),
           code, desc)

\* selectedData = validRows.map(i => data[i]); rows = selectedData.map(row => ({...}));
\* data[i] outside the matrix is undefined and row[0] then throws a TypeError
XlsxBuild ==
    /\ op = "xlsx" /\ pc = "build"
    /\ LET data == SheetData(arg.excel)
           validRows == XlsxValidRows(local.rowNumbers, Len(data))
           accessed == {validRows[k] : k \in 1..Len(validRows)}
       IN IF \E i \in accessed : i < 0 \/ i >= Len(data)
          THEN /\ local' = [error |-> "TypeError", accessed |-> accessed]
               /\ pc' = "catch"
          ELSE /\ local' = [code |-> local.code, desc |-> local.desc,
                            rowNumbers |-> local.rowNumbers, rowCount |-> local.rowCount,
                            validRows |-> validRows, accessed |-> accessed,
                            rows |-> [k \in 1..Len(validRows) |->
                                        XlsxRecord(data[validRows[k] + 1], local.code, local.desc)]]
               /\ pc' = "respond"
    /\ UNCHANGED <<op, arg, ret, response, disk>>

XlsxRespond ==
    /\ op = "xlsx" /\ pc = "respond"
    /\ LET totalTransactions == Len(local.rows)
           totalAmount == SumImporte(local.rows)
       IN response' = SuccessResponse(local.rows, totalTransactions, totalAmount)
    /\ pc' = "done"
    /\ UNCHANGED <<op, arg, ret, local, disk>>

XlsxCatch ==
    /\ op = "xlsx" /\ pc = "catch"
    /\ response' = ErrorResponse(local.error)
    /\ pc' = "done"
    /\ UNCHANGED <<op, arg, ret, local, disk>>

NextXlsx ==
    XlsxOptions \/ XlsxReadForm \/ XlsxExtract \/ XlsxReadWorkbook \/ XlsxBuild
    \/ XlsxRespond \/ XlsxCatch

SpecXlsx == InitXlsx /\ [][NextXlsx]_vars

(***************************************************************************)
(* process-rechazo-ibk                                                     *)
(***************************************************************************)
KEYWORDS_NO_TIT ==
    << <<"n", "o", " ", "e", "s", " ", "t", "i", "t", "u", "l", "a", "r">>,
       <<"b", "e", "n", "e", "f", "i", "c", "i", "a", "r", "i", "o", " ", "n", "o">>,
       <<"c", "l", "i", "e", "n", "t", "e", " ", "n", "o", " ", "t", "i", "t", "u", "l", "a", "r">>,
       <<"n", "o", " ", "t", "i", "t", "u", "l", "a", "r">>,
       <<"c", "o", "n", "t", "i", "n", "u", "a", "r">>,
       <<"p", "u", "e", "d", "e", "s", " ", "c", "o", "n", "t", "i", "n", "u", "a", "r">>,
       <<"s", "i", " ", "d", "e", "s", "e", "a", "s", ",", " ", "p", "u", "e", "d", "e", "s", " ", "c", "o", "n", "t", "i", "n", "u", "a", "r">> >>

UpperCase == <<"A", "B", "C", "D", "E", "F", "G", "H", "I", "J", "K", "L", "M",
               "N", "O", "P", "Q", "R", "S", "T", "U", "V", "W", "X", "Y", "Z">>
LowerCase == <<"a", "b", "c", "d", "e", "f", "g", "h", "i", "j", "k", "l", "m",
               "n", "o", "p", "q", "r", "s", "t", "u", "v", "w", "x", "y", "z">>

\* String.prototype.toLowerCase on the letters A-Z
ToLower(s) ==
    [i \in 1..Len(s) |->
        IF \E k \in 1..26 : UpperCase[k] = s[i]
        THEN LowerCase[CHOOSE k \in 1..26 : UpperCase[k] = s[i]]
        ELSE s[i]]

\* String.prototype.includes
Contains(s, sub) ==
    \E i \in 1..(Len(s) - Len(sub) + 1) : SubSeq(s, i, i + Len(sub) - 1) = sub

MaxIbkRows == 2

\* the situation texts a body row may carry in column 14
Situations ==
    [notit |-> JStr(<<"c", "l", "i", "e", "n", "t", "e", " ", "n", "o", " ", "t", "i", "t", "u", "l", "a", "r">>),
     saldo |-> JStr(<<"s", "a", "l", "d", "o", " ", "i", "n", "s", "u", "f", "i", "c", "i", "e", "n", "t", "e">>),
     upper |-> JStr(<<"E", "L", " ", "B", "E", "N", "E", "F", "I", "C", "I", "A", "R", "I", "O", " ", "N", "O", " ", "E", "S", " ", "T", "I", "T", "U", "L", "A", "R">>),
     empty |-> Empty,
     blank |-> JStr(<<" ", " ">>),
     zero |-> JNum(Zero)]

RowKinds == {"notit", "saldo", "upper", "empty", "blank", "zero", "short"}

\* a body row of the archive's sheet, at 0-based index i
IbkRow(kind, i) ==
    LET head == <<Empty, Empty, Empty, Empty,
                  JNum(Dec(10000000 + i, 0)),
                  JStr(<<"D", "I", "A", "Z", " ">> \o NatDigits(i)),
                  Empty,
                  JStr(<<"O", "P">> \o NatDigits(i)),
                  Empty, Empty>>
    IN IF kind = "short" THEN head
       ELSE head \o <<Empty, Empty, Empty,
                      IF i % 2 = 0 THEN JStr(<<"S", "/", " ", "1", ".", "5", "0", "0", ",", "2", "5">>) ELSE JNum(Dec(105, 1)),
                      Situations[kind]>>

\* a row of the sheet's preamble (title and column headers), at 0-based index i
PreambleRow(i) ==
    <<Empty, Empty, Empty, Empty, JStr(<<"D", "o", "c">>), JStr(<<"N", "o", "m">>), Empty,
      JStr(<<"R", "e", "f">>), Empty, Empty, Empty, Empty, Empty, JStr(<<"M", "o", "n", "t", "o">>),
      IF i % 2 = 1 THEN JStr(<<"S", "i", "t", "u", "a", "c", "i", "o", "n">>) ELSE Empty>>

ZipFile(content, preamble, body) ==
    [t |-> "file", content |-> content, preamble |-> preamble, body |-> body]

\* the decoded matrix of the spreadsheet inside the archive
IbkData(f) ==
    [k \in 1..(f.preamble + Len(f.body)) |->
        IF k <= f.preamble THEN PreambleRow(k - 1) ELSE IbkRow(f.body[k - f.preamble], k - 1)]

ZipFiles ==
    { ZipFile("sheet", p, b) : p \in {10, 11, 12}, b \in SeqsUpTo(RowKinds, MaxIbkRows) }
    \cup { ZipFile(c, 0, <<>>) : c \in {"corrupt", "noexcel", "nested", "unreadable", "sheet"} }

IbkRequests ==
    { [method |-> m, form |-> FALSE, zip |-> NoFile, lib |-> TRUE] : m \in {"OPTIONS", "POST"} }
    \cup { [method |-> "POST", form |-> TRUE, zip |-> z, lib |-> l] :
             z \in ZipFiles \cup {NoFile}, l \in BOOLEAN }

InitIbk ==
    /\ op = "ibk"
    /\ pc = "start"
    /\ arg \in IbkRequests
    /\ ret = Idle
    /\ local = Idle
    /\ response = Idle
    /\ disk = {}

IbkOptions ==
    /\ op = "ibk" /\ pc = "start" /\ arg.method = "OPTIONS"
    /\ response' = PreflightResponse
    /\ pc' = "done"
    /\ UNCHANGED <<op, arg, ret, local, disk>>

\* formData = await req.formData() (throws on a body that is not form data);
\* zipFile = formData.get('zip'); if (!zipFile) throw ...; XLSX = await import(...)
IbkReadForm ==
    /\ op = "ibk" /\ pc = "start" /\ arg.method # "OPTIONS"
    /\ IF ~arg.form
       THEN /\ local' = [error |-> "Body can not be decoded as form data"]
            /\ pc' = "catch"
       ELSE IF arg.zip = NoFile
       THEN /\ local' = [error |-> "Missing ZIP file"]
            /\ pc' = "catch"
       ELSE IF ~arg.lib
       THEN /\ local' = [error |-> "import failed"]
            /\ pc' = "catch"
       ELSE /\ local' = Idle
            /\ pc' = "temp"
    /\ UNCHANGED <<op, arg, ret, response, disk>>

\* tempPath = await Deno.makeTempFile(...); writeFile(tempPath, ...); tempDir = await Deno.makeTempDir()
IbkWriteTemp ==
    /\ op = "ibk" /\ pc = "temp"
    /\ disk' = disk \cup {"tempPath", "tempDir"}
    /\ pc' = "decompress"
    /\ UNCHANGED <<op, arg, ret, local, response>>

\* await decompress(tempPath, tempDir): a broken archive makes it throw, or return
\* without having extracted anything
IbkDecompress ==
    /\ op = "ibk" /\ pc = "decompress"
    /\ \/ /\ arg.zip.content = "corrupt"
          /\ local' = [error |-> "decompress failed"]
          /\ pc' = "catch"
       \/ /\ local' = [entries |-> IF arg.zip.content \in {"corrupt", "noexcel"} THEN {}
                                   ELSE IF arg.zip.content = "nested" THEN {"dir"}
                                   ELSE {"xlsx"}]
          /\ pc' = "find"
    /\ UNCHANGED <<op, arg, ret, response, disk>>

\* the first file entry ending in .xlsx or .xls; if (!excelPath) throw ...
IbkFindExcel ==
    /\ op = "ibk" /\ pc = "find"
    /\ IF "xlsx" \in local.entries
       THEN /\ local' = [excelPath |-> "xlsx"]
            /\ pc' = "read"
       ELSE /\ local' = [error |-> "No Excel file found in ZIP"]
            /\ pc' = "catch"
    /\ UNCHANGED <<op, arg, ret, response, disk>>

\* excelBuffer = await Deno.readFile(excelPath); workbook = XLSX.read(excelBuffer); data = ...
IbkReadWorkbook ==
    /\ op = "ibk" /\ pc = "read"
    /\ IF arg.zip.content = "unreadable"
       THEN /\ local' = [error |-> "unreadable workbook"]
            /\ pc' = "catch"
       ELSE /\ local' = [rowCount |-> Len(IbkData(arg.zip))]
            /\ pc' = "build"
    /\ UNCHANGED <<op, arg, ret, response, disk>>

\* the first row index processed: data.slice(11)
IbkFirstRow == 11

\* the selection starting one row early: data.slice(10)
IbkValidRowsFrom10(data) ==
    LET dataFrom10 == Slice(data, IbkFirstRow - 1, Len(data))
    IN SelectSeq(dataFrom10,
                 LAMBDA row : LET colO == Cell(row, 14)
                              IN colO.t # "null" /\ colO.t # "undefined"
                                 /\ Trim(ToStr(colO)) # <<>>)

\* data.slice(11).filter(row => colO !== null && colO !== undefined && String(colO).trim() !== '')
IbkValidRows(data) ==
    LET dataFrom11 == Slice(data, IbkFirstRow, Len(data))
    IN SelectSeq(dataFrom11,
                 LAMBDA row : LET colO == Cell(row, 14)
                              IN colO.t # "null" /\ colO.t # "undefined"
                                 /\ Trim(ToStr(colO)) # <<>>)

R016 == <<JStr(<<"R", "0", "1", "6">>), JStr(<<"C", "L", "I", "E", "N", "T", "E", " ", "N", "O", " ", "T", "I", "T", "U", "L", "A", "R", " ", "D", "E", " ", "L", "A", " ", "C", "U", "E", "N", "T", "A">>)>>
R002 == <<JStr(<<"R", "0", "0", "2">>), JStr(<<"C", "U", "E", "N", "T", "A", " ", "I", "N", "V", "A", "L", "I", "D", "A">>)>>

\* the classification without toLowerCase()
IbkIsNoTitularCaseSensitive(row) ==
    LET situacion == ToStr(OrElse(Cell(row, 14), Empty))
    IN \E k \in 1..Len(KEYWORDS_NO_TIT) : Contains(situacion, KEYWORDS_NO_TIT[k])

\* situacion = String(row[14] || '').toLowerCase(); KEYWORDS_NO_TIT.some(kw => situacion.includes(kw))
IbkIsNoTitular(row) ==
    LET situacion == ToLower(ToStr(OrElse(Cell(row, 14), Empty)))
    IN \E k \in 1..Len(KEYWORDS_NO_TIT) : Contains(situacion, KEYWORDS_NO_TIT[k])

\* the object literal built from one valid row
IbkRecord(row) ==
    LET isNoTitular == IbkIsNoTitular(row)
    IN Record(StringOrEmpty(Cell(row, 4)),
              StringOrEmpty(Cell(row, 5)),
              parseAmountIbk(Cell(row, 13)),
              StringOrEmpty(Cell(row, 7)),
              IF isNoTitular THEN R016[1] ELSE R002[1],
              IF isNoTitular THEN R016[2] ELSE R002[2])

IbkBuild ==
    /\ op = "ibk" /\ pc = "build"
    /\ LET validRows == IbkValidRows(IbkData(arg.zip))
       IN local' = [rowCount |-> local.rowCount,
                    validRows |-> validRows,
                    rows |-> [k \in 1..Len(validRows) |-> IbkRecord(validRows[k])]]
    /\ pc' = "cleanup"
    /\ UNCHANGED <<op, arg, ret, response, disk>>

\* await Deno.remove(tempPath); await Deno.remove(tempDir, { recursive: true })
IbkCleanup ==
    /\ op = "ibk" /\ pc = "cleanup"
    /\ disk' = disk \ {"tempPath", "tempDir"}
    /\ pc' = "respond"
    /\ UNCHANGED <<op, arg, ret, local, response>>

IbkRespond ==
    /\ op = "ibk" /\ pc = "respond"
    /\ LET totalTransactions == Len(local.rows)
           totalAmount == SumImporte(local.rows)
       IN response' = SuccessResponse(local.rows, totalTransactions, totalAmount)
    /\ pc' = "done"
    /\ UNCHANGED <<op, arg, ret, local, disk>>

IbkCatch ==
    /\ op = "ibk" /\ pc = "catch"
    /\ response' = ErrorResponse(local.error)
    /\ pc' = "done"
    /\ UNCHANGED <<op, arg, ret, local, disk>>

NextIbk ==
    IbkOptions \/ IbkReadForm \/ IbkWriteTemp \/ IbkDecompress \/ IbkFindExcel
    \/ IbkReadWorkbook \/ IbkBuild \/ IbkCleanup \/ IbkRespond \/ IbkCatch

SpecIbk == InitIbk /\ [][NextIbk]_vars

(***************************************************************************)
(* Spec: one request to any of the three handlers                          *)
(***************************************************************************)
Init == InitTxt \/ InitXlsx \/ InitIbk

Next == NextTxt \/ NextXlsx \/ NextIbk

Spec == Init /\ [][Next]_vars

(***************************************************************************)
(* The PostBcpXlsx and RechazoIbk components.  local holds the component's *)
(* useState values, ret the invocations in flight, the form data of the    *)
(* last one and the way the last one settled, response the last toast.     *)
(***************************************************************************)
MaxPending == 2

CODE_OPTIONS ==
    [R001 |-> "DOCUMENTO ERRADO", R002 |-> "CUENTA INVALIDA", R007 |-> "RECHAZO POR CCI"]

\* what the file input hands to onFileChange: e.target.files?.[0] || null
SelectedFiles(accept) == {JNull, [t |-> "file", accept |-> accept]}

\* the data of a 2xx answer: a payload of the handlers, or a body that is not a payload
UiRows ==
    { <<>>,
      <<Record(JStr(<<"1">>), JStr(<<"A">>), Dec(15, 1), JStr(<<"7">>), JStr(<<"R">>), JStr(<<"D">>))>> }

InvokeData ==
    {SuccessResponse(rows, Len(rows), SumImporte(rows)).body : rows \in UiRows}
        \cup {JStr(<<"O", "K">>)}

\* how `await supabase.functions.invoke(...)` settles: {data, error}, or a rejection
InvokeOutcomes ==
    {[data |-> d, error |-> JNull, threw |-> FALSE] : d \in InvokeData}
        \cup {[data |-> JNull, error |-> JStr(<<"F", "u", "n", "c", "t", "i", "o", "n", "s",
                                                "H", "t", "t", "p", "E", "r", "r", "o", "r">>),
               threw |-> FALSE],
              [data |-> JNull, error |-> JNull, threw |-> TRUE]}

NotSettled == [none |-> TRUE]

Toast(title, description) == [title |-> title, description |-> description]

\* data.results.length is a TypeError when data has no results
HasResults(data) == "results" \in DOMAIN data

InitUi ==
    /\ op = "ui"
    /\ pc = "idle"
    /\ arg \in {[component |-> "PostBcpXlsx"], [component |-> "RechazoIbk"]}
    /\ local = IF arg.component = "PostBcpXlsx"
               THEN [code |-> "R001", desc |-> "DOCUMENTO ERRADO", pdfFile |-> JNull,
                     excelFile |-> JNull, results |-> JNull, loading |-> FALSE]
               ELSE [zipFile |-> JNull, results |-> JNull, loading |-> FALSE]
    /\ ret = [pending |-> 0, formData |-> JNull, settled |-> NotSettled]
    /\ response = Idle
    /\ disk = {}

\* handleCodeSelect: setCode(newCode); setDesc(newDesc)
handleCodeSelect ==
    /\ op = "ui" /\ arg.component = "PostBcpXlsx"
    /\ \E newCode \in DOMAIN CODE_OPTIONS :
          local' = [local EXCEPT !.code = newCode, !.desc = CODE_OPTIONS[newCode]]
    /\ UNCHANGED <<op, pc, arg, ret, response, disk>>

\* onFileChange={setPdfFile}
setPdfFile ==
    /\ op = "ui" /\ arg.component = "PostBcpXlsx"
    /\ \E f \in SelectedFiles(".pdf") : local' = [local EXCEPT !.pdfFile = f]
    /\ UNCHANGED <<op, pc, arg, ret, response, disk>>

\* onFileChange={setExcelFile}
setExcelFile ==
    /\ op = "ui" /\ arg.component = "PostBcpXlsx"
    /\ \E f \in SelectedFiles(".xlsx,.xls") : local' = [local EXCEPT !.excelFile = f]
    /\ UNCHANGED <<op, pc, arg, ret, response, disk>>

\* onFileChange={setZipFile}
setZipFile ==
    /\ op = "ui" /\ arg.component = "RechazoIbk"
    /\ \E f \in SelectedFiles(".zip") : local' = [local EXCEPT !.zipFile = f]
    /\ UNCHANGED <<op, pc, arg, ret, response, disk>>

\* the guard taken only when both files are missing
PostBcpXlsxFilesMissingBoth == local.pdfFile = JNull /\ local.excelFile = JNull

\* if (!pdfFile || !excelFile)
PostBcpXlsxFilesMissing == local.pdfFile = JNull \/ local.excelFile = JNull

\* PostBcpXlsx.handleProcess up to the await
PostBcpXlsxHandleProcess ==
    /\ op = "ui" /\ arg.component = "PostBcpXlsx"
    /\ ret.pending < MaxPending
    /\ IF PostBcpXlsxFilesMissing
       THEN /\ response' = Toast("Archivos incompletos",
                                 "Debe seleccionar ambos archivos (PDF y Excel)")
            /\ UNCHANGED <<pc, local, ret>>
       ELSE /\ local' = [local EXCEPT !.loading = TRUE]
            /\ ret' = [ret EXCEPT !.pending = @ + 1,
                                  !.formData = [pdf |-> local.pdfFile, excel |-> local.excelFile,
                                                code |-> local.code, desc |-> local.desc]]
            /\ pc' = "await"
            /\ UNCHANGED response
    /\ UNCHANGED <<op, arg, disk>>

\* if (!zipFile)
RechazoIbkFileMissing == local.zipFile = JNull

\* RechazoIbk.handleProcess up to the await
RechazoIbkHandleProcess ==
    /\ op = "ui" /\ arg.component = "RechazoIbk"
    /\ ret.pending < MaxPending
    /\ IF RechazoIbkFileMissing
       THEN /\ response' = Toast("Archivo faltante", "Debe seleccionar el archivo ZIP")
            /\ UNCHANGED <<pc, local, ret>>
       ELSE /\ local' = [local EXCEPT !.loading = TRUE]
            /\ ret' = [ret EXCEPT !.pending = @ + 1, !.formData = [zip |-> local.zipFile]]
            /\ pc' = "await"
            /\ UNCHANGED response
    /\ UNCHANGED <<op, arg, disk>>

\* the rest of handleProcess once the invocation has settled:
\* if (error) throw error; setResults(data); toast(...) / catch { toast(...) } / finally { setLoading(false) }
Resume(outcome, failureDescription) ==
    /\ ret.pending > 0
    /\ IF outcome.threw \/ outcome.error # JNull
       THEN /\ local' = [local EXCEPT !.loading = FALSE]
            /\ response' = Toast("Error al procesar", failureDescription)
       ELSE /\ local' = [local EXCEPT !.results = outcome.data, !.loading = FALSE]
            /\ response' = IF HasResults(outcome.data)
                           THEN Toast("Procesamiento exitoso", Len(outcome.data.results))
                           ELSE Toast("Error al procesar", failureDescription)
    /\ ret' = [ret EXCEPT !.pending = @ - 1, !.settled = outcome]
    /\ pc' = IF ret.pending = 1 THEN "idle" ELSE "await"
    /\ UNCHANGED <<op, arg, disk>>

PostBcpXlsxResume ==
    /\ op = "ui" /\ arg.component = "PostBcpXlsx"
    /\ \E outcome \in InvokeOutcomes : Resume(outcome, "No se pudieron procesar los archivos")

RechazoIbkResume ==
    /\ op = "ui" /\ arg.component = "RechazoIbk"
    /\ \E outcome \in InvokeOutcomes : Resume(outcome, "No se pudo procesar el archivo ZIP")

NextUi ==
    \/ handleCodeSelect \/ setPdfFile \/ setExcelFile \/ setZipFile
    \/ PostBcpXlsxHandleProcess \/ RechazoIbkHandleProcess
    \/ PostBcpXlsxResume \/ RechazoIbkResume

SpecUi == InitUi /\ [][NextUi]_vars

\* every invocation settles: the promise of functions.invoke resolves or rejects
SpecUiFair == SpecUi /\ WF_vars(PostBcpXlsxResume) /\ WF_vars(RechazoIbkResume)

(***************************************************************************)
(* C1: after a call on a string, each of the three copies has returned a   *)
(* finite number that is >= 0.                                             *)
(***************************************************************************)
IsFiniteNonNeg(x) == x.k = "fin" /\ x.n >= 0

C1_TotalNonNegative ==
    (op = "parseAmount" /\ pc = "done" /\ arg.t = "str") =>
        /\ IsFiniteNonNeg(ret.txt)
        /\ IsFiniteNonNeg(ret.xlsx)
        /\ IsFiniteNonNeg(ret.ibk)

(***************************************************************************)
(* C2: the documented inputs give the documented values: "1.234,56",       *)
(* "1,234.56" and "1234,56" all parse to 1234.56; "" and "abc" to 0.       *)
(***************************************************************************)
DocumentedValue(s) ==
    CASE s = <<"1", ".", "2", "3", "4", ",", "5", "6">> -> Dec(123456, 2)
      [] s = <<"1", ",", "2", "3", "4", ".", "5", "6">> -> Dec(123456, 2)
      [] s = <<"1", "2", "3", "4", ",", "5", "6">> -> Dec(123456, 2)
      [] s = <<>> -> Zero
      [] s = <<"a", "b", "c">> -> Zero

IsDocumented(s) ==
    s \in { <<"1", ".", "2", "3", "4", ",", "5", "6">>,
            <<"1", ",", "2", "3", "4", ".", "5", "6">>,
            <<"1", "2", "3", "4", ",", "5", "6">>,
            <<>>,
            <<"a", "b", "c">> }

C2_DocumentedValues ==
    (op = "parseAmount" /\ pc = "done" /\ arg.t = "str" /\ IsDocumented(arg.v)) =>
        /\ ret.txt = DocumentedValue(arg.v)
        /\ ret.xlsx = DocumentedValue(arg.v)
        /\ ret.ibk = DocumentedValue(arg.v)

(***************************************************************************)
(* C3: on every string the three copies return what the reference          *)
(* procedure returns: keep digits, '.', ',' and '-'; with both separators  *)
(* present drop every '.' and turn every ',' into '.'; with only ','       *)
(* present turn every ',' into '.'; then keep only the last '.' when       *)
(* several remain; then convert, a failed conversion giving 0.             *)
(***************************************************************************)
RefKeep(s) == SelectSeq(s, LAMBDA c : c \in {"0", "1", "2", "3", "4", "5", "6", "7", "8", "9", ".", ",", "-"})

RECURSIVE RefMap(_, _, _)
RefMap(s, dot, comma) ==
    IF s = <<>> THEN <<>>
    ELSE (CASE Head(s) = "." -> dot
            [] Head(s) = "," -> comma
            [] OTHER -> <<Head(s)>>) \o RefMap(Tail(s), dot, comma)

RefSeparators(s) ==
    LET hasDot == "." \in {s[i] : i \in 1..Len(s)}
        hasComma == "," \in {s[i] : i \in 1..Len(s)}
    IN IF hasDot /\ hasComma THEN RefMap(s, <<>>, <<".">>)
       ELSE IF hasComma THEN RefMap(s, <<".">>, <<".">>)
       ELSE s

RefCollapse(s) ==
    LET dots == {i \in 1..Len(s) : s[i] = "."}
        last == CHOOSE i \in dots : \A j \in dots : j <= i
        kept == {i \in 1..Len(s) : s[i] # "." \/ i = last}
    IN IF Cardinality(dots) <= 1 THEN s
       ELSE [k \in 1..Cardinality(kept) |->
               s[CHOOSE i \in kept : Cardinality({j \in kept : j < i}) = k - 1]]

RefParse(s) ==
    LET f == parseFloat(RefCollapse(RefSeparators(RefKeep(s))))
    IN IF f.k = "nan" THEN Zero ELSE f

C3_CopiesFollowReference ==
    (op = "parseAmount" /\ pc = "done" /\ arg.t = "str") =>
        /\ ret.txt = RefParse(arg.v)
        /\ ret.xlsx = RefParse(arg.v)
        /\ ret.ibk = RefParse(arg.v)

\* a string with several '.' and no ',' has been parsed, the collapse giving a non-zero value
C3_Witness ==
    /\ op = "parseAmount" /\ pc = "done" /\ arg.t = "str"
    /\ Cardinality({i \in 1..Len(arg.v) : arg.v[i] = "."}) >= 2
    /\ \A i \in 1..Len(arg.v) : arg.v[i] # ","
    /\ ret.txt # Zero /\ ret.txt = ret.xlsx /\ ret.xlsx = ret.ibk

(***************************************************************************)
(* C4: sliceFixed(line, start, end) returns "" for an empty line and when  *)
(* offset = max(0, start - 1) is not below the length; otherwise the       *)
(* characters at 0-based positions offset .. min(end, length) - 1, with    *)
(* the surrounding whitespace removed.                                     *)
(***************************************************************************)
RECURSIVE RefTrimLeft(_)
RefTrimLeft(s) ==
    IF s # <<>> /\ Head(s) \in WhiteSpace THEN RefTrimLeft(Tail(s)) ELSE s

RECURSIVE RefTrimRight(_)
RefTrimRight(s) ==
    IF s # <<>> /\ s[Len(s)] \in WhiteSpace THEN RefTrimRight(SubSeq(s, 1, Len(s) - 1)) ELSE s

RefColumns(line, start, end) ==
    LET offset == IF start - 1 > 0 THEN start - 1 ELSE 0
        stop == IF end < Len(line) THEN end ELSE Len(line)
    IN IF line = <<>> \/ offset >= Len(line) THEN <<>>
       ELSE RefTrimLeft(RefTrimRight([k \in 1..(IF stop > offset THEN stop - offset ELSE 0) |-> line[offset + k]]))

C4_SliceFixedColumns ==
    (op = "sliceFixed" /\ pc = "done") =>
        /\ ret.value = RefColumns(arg.line, arg.start, arg.end)
        /\ (arg.line = <<"A", "B">> /\ arg.start = 1 /\ arg.end = 10) => ret.value = <<"A", "B">>
        /\ (Len(arg.line) < 200 /\ arg.start = 200 /\ arg.end = 210) => ret.value = <<>>

\* a clipped, trimmed, non-empty field has been returned from a start column of 0
C4_Witness ==
    /\ op = "sliceFixed" /\ pc = "done"
    /\ arg.start = 0 /\ arg.end > Len(arg.line)
    /\ Len(arg.line) >= 3 /\ arg.line[1] = " "
    /\ ret.value # <<>> /\ Len(ret.value) < Len(arg.line)

(***************************************************************************)
(* C5: both extractors return a strictly ascending sequence (so without    *)
(* duplicates) that holds the number of every marker of the text, however  *)
(* often and in whatever order it appears; a text without the marker word  *)
(* gives the empty sequence; a second run on the same text returns the     *)
(* same sequences; "Registro 3 ... Registro 1 ... Registro 3" gives 1, 3.  *)
(***************************************************************************)
StrictlyAscending(xs) == \A i \in 1..Len(xs) : \A j \in 1..Len(xs) : i < j => xs[i] < xs[j]

Elems(xs) == {xs[i] : i \in 1..Len(xs)}

WordAt(text, i) ==
    /\ i + 7 <= Len(text)
    /\ \A k \in 1..8 : text[i + k - 1] = RegistroWord[k]

\* the positions of `text` right after a marker word and at least one whitespace, where digits start
MarkerStarts(text) ==
    {j \in 1..Len(text) :
        /\ IsDigit(text[j])
        /\ j > 1 /\ text[j - 1] \in WhiteSpace
        /\ \E i \in 1..j : /\ WordAt(text, i)
                           /\ i + 8 < j
                           /\ \A k \in (i + 8)..(j - 1) : text[k] \in WhiteSpace}

\* the maximal digit run that starts at j
RefDigitRun(text, j) ==
    LET end == CHOOSE e \in j..Len(text) :
                   /\ \A k \in j..e : IsDigit(text[k])
                   /\ (e = Len(text) \/ ~IsDigit(text[e + 1]))
    IN SubSeq(text, j, end)

RECURSIVE RefNumber(_)
RefNumber(ds) == IF ds = <<>> THEN 0 ELSE 10 * RefNumber(SubSeq(ds, 1, Len(ds) - 1)) + DigitVal(ds[Len(ds)])

DocumentedText ==
    RegistroWord \o <<" ", "3">> \o Dots \o RegistroWord \o <<" ", "1">> \o Dots
        \o RegistroWord \o <<" ", "3">>

RECURSIVE Ascending(_)
Ascending(S) ==
    IF S = {} THEN <<>>
    ELSE LET m == CHOOSE x \in S : \A y \in S : x <= y
         IN <<m>> \o Ascending(S \ {m})

RefLineCount(f) == IF f.lines = 0 THEN 1 ELSE f.lines + (IF f.trailing THEN 1 ELSE 0)

\* the line at 0-based index j of the named file
RefLine(f, j) == IF j + 1 <= f.lines THEN LineOf(j + 1) ELSE <<>>

RefTxtRecord(line, code, desc) ==
    [k \in {"dni/cex", "nombre", "importe", "Referencia", "Estado",
            "Codigo de Rechazo", "Descripcion de Rechazo"} |->
        CASE k = "dni/cex" -> JStr(RefColumns(line, 25, 33))
          [] k = "nombre" -> JStr(RefColumns(line, 40, 85))
          [] k = "importe" -> JNum(RefParse(RefColumns(line, 186, 195)))
          [] k = "Referencia" -> JStr(RefColumns(line, 115, 126))
          [] k = "Estado" -> JStr(<<"r", "e", "c", "h", "a", "z", "a", "d", "a">>)
          [] k = "Codigo de Rechazo" -> code
          [] OTHER -> desc]

TxtAccepted ==
    {r \in Elems(arg.pdf.markers) : 1 <= 2 * r /\ 2 * r <= RefLineCount(arg.txt)}

TxtRan == op = "txt" /\ pc = "done" /\ arg.method = "POST" /\ arg.pdf # NoFile /\ arg.txt # NoFile

RefCellText(row, j) ==
    IF j + 1 > Len(row) THEN <<>>
    ELSE LET c == row[j + 1]
         IN IF c.t = "str" THEN c.v
            ELSE IF c.t = "num" /\ c.v.n # 0 THEN NumToString(c.v)
            ELSE <<>>

RefCellAmount(row, j) ==
    IF j + 1 > Len(row) THEN Zero
    ELSE LET c == row[j + 1]
         IN IF c.t = "str" THEN RefParse(c.v)
            ELSE IF c.t = "num" THEN c.v
            ELSE Zero

RefXlsxRecord(row, code, desc) ==
    [k \in {"dni/cex", "nombre", "importe", "Referencia", "Estado",
            "Codigo de Rechazo", "Descripcion de Rechazo"} |->
        CASE k = "dni/cex" -> JStr(RefCellText(row, 0))
          [] k = "nombre" -> JStr(IF RefCellText(row, 3) # <<>> THEN RefCellText(row, 3)
                                  ELSE RefCellText(row, 1))
          [] k = "importe" -> JNum(RefCellAmount(row, 12))
          [] k = "Referencia" -> JStr(RefCellText(row, 7))
          [] k = "Estado" -> JStr(<<"r", "e", "c", "h", "a", "z", "a", "d", "a">>)
          [] k = "Codigo de Rechazo" -> code
          [] OTHER -> desc]

XlsxAccepted ==
    {r \in Elems(arg.pdf.markers) : 0 <= r + 1 /\ r + 1 < arg.excel.rows}

XlsxRan ==
    /\ op = "xlsx" /\ pc = "done" /\ arg.method = "POST" /\ arg.lib
    /\ arg.pdf # NoFile /\ arg.excel # NoFile /\ arg.excel.kind = "sheet"

C7_XlsxRecordsFromShiftedRows ==
    XlsxRan =>
        LET order == Ascending(XlsxAccepted)
        IN /\ response.status = 200
           /\ Len(response.body.results) = Len(order)
           /\ \A k \in 1..Len(order) :
                 response.body.results[k] =
                     RefXlsxRecord(RowOf(order[k] + 1), arg.code, arg.desc)
           /\ \A i \in local.accessed : 0 <= i /\ i < arg.excel.rows

\* a run that emitted two records or more and dropped a registro that maps past the last row
C7_Witness ==
    /\ XlsxRan
    /\ Len(response.body.results) >= 2
    /\ \E r \in Elems(arg.pdf.markers) : r + 1 >= arg.excel.rows
    /\ \E r \in Elems(arg.pdf.markers) : r + 1 = arg.excel.rows - 1

(***************************************************************************)
(* C8: in every success payload totalTransactions is the number of         *)
(* elements of results and totalAmount is the sum of their importe fields; *)
(* both are 0 for empty results.                                           *)
(***************************************************************************)
IsPayload(r) == r # Idle /\ r.status = 200 /\ r.body # JNull

MaxScale(rows) ==
    LET es == {rows[i]["importe"].v.e : i \in 1..Len(rows)} \cup {0}
    IN CHOOSE e \in es : \A f \in es : f <= e

RECURSIVE RefScaledSum(_, _, _)
RefScaledSum(rows, i, scale) ==
    IF i > Len(rows) THEN 0
    ELSE rows[i]["importe"].v.n * Pow10(scale - rows[i]["importe"].v.e)
         + RefScaledSum(rows, i + 1, scale)

\* x denotes the same decimal as units / 10^scale
SameDecimal(x, units, scale) == x.k = "fin" /\ x.n * Pow10(scale - x.e) = units

RecordFields ==
    {"dni/cex", "nombre", "importe", "Referencia", "Estado",
     "Codigo de Rechazo", "Descripcion de Rechazo"}

C9_AllFieldsNonNull ==
    IsPayload(response) =>
        \A k \in 1..Len(response.body.results) :
            /\ DOMAIN response.body.results[k] = RecordFields
            /\ \A f \in RecordFields :
                  response.body.results[k][f].t \notin {"null", "undefined"}

(***************************************************************************)
(* C10: in the archive path a record has code R016 with description        *)
(* CLIENTE NO TITULAR DE LA CUENTA exactly when the lower-cased text of    *)
(* its row's column 14 contains a phrase of KEYWORDS_NO_TIT, and otherwise *)
(* R002 with CUENTA INVALIDA ("cliente no titular" gives R016, "saldo      *)
(* insuficiente" gives R002).                                              *)
(***************************************************************************)
RefLowerChar(c) ==
    CASE c = "A" -> "a" [] c = "B" -> "b" [] c = "C" -> "c" [] c = "D" -> "d"
      [] c = "E" -> "e" [] c = "F" -> "f" [] c = "G" -> "g" [] c = "H" -> "h"
      [] c = "I" -> "i" [] c = "J" -> "j" [] c = "K" -> "k" [] c = "L" -> "l"
      [] c = "M" -> "m" [] c = "N" -> "n" [] c = "O" -> "o" [] c = "P" -> "p"
      [] c = "Q" -> "q" [] c = "R" -> "r" [] c = "S" -> "s" [] c = "T" -> "t"
      [] c = "U" -> "u" [] c = "V" -> "v" [] c = "W" -> "w" [] c = "X" -> "x"
      [] c = "Y" -> "y" [] c = "Z" -> "z" [] OTHER -> c

\* some phrase of the list occurs in the lower-cased text
RefHasPhrase(text) ==
    \E p \in 1..Len(KEYWORDS_NO_TIT) :
        \E off \in 0..Len(text) :
            /\ off + Len(KEYWORDS_NO_TIT[p]) <= Len(text)
            /\ \A j \in 1..Len(KEYWORDS_NO_TIT[p]) :
                  RefLowerChar(text[off + j]) = KEYWORDS_NO_TIT[p][j]

IbkRan == op = "ibk" /\ pc = "done" /\ IsPayload(response)

C10_IbkCodeByKeyword ==
    IbkRan =>
        /\ Len(response.body.results) = Len(local.validRows)
        /\ \A k \in 1..Len(local.validRows) :
              LET rec == response.body.results[k]
                  text == RefCellText(local.validRows[k], 14)
              IN /\ rec["Codigo de Rechazo"] = JStr(<<"R", "0", "1", "6">>) <=> RefHasPhrase(text)
                 /\ RefHasPhrase(text) =>
                       rec["Descripcion de Rechazo"] = JStr(<<"C", "L", "I", "E", "N", "T", "E", " ", "N", "O", " ", "T", "I", "T", "U", "L", "A", "R", " ", "D", "E", " ", "L", "A", " ", "C", "U", "E", "N", "T", "A">>)
                 /\ ~RefHasPhrase(text) =>
                       /\ rec["Codigo de Rechazo"] = JStr(<<"R", "0", "0", "2">>)
                       /\ rec["Descripcion de Rechazo"] = JStr(<<"C", "U", "E", "N", "T", "A", " ", "I", "N", "V", "A", "L", "I", "D", "A">>)
                 /\ text = <<"s", "a", "l", "d", "o", " ", "i", "n", "s", "u", "f", "i", "c", "i", "e", "n", "t", "e">> => rec["Codigo de Rechazo"] = JStr(<<"R", "0", "0", "2">>)
                 /\ RefTrimLeft(text) = <<"c", "l", "i", "e", "n", "t", "e", " ", "n", "o", " ", "t", "i", "t", "u", "l", "a", "r">> => rec["Codigo de Rechazo"] = JStr(<<"R", "0", "1", "6">>)

\* a payload holding a record classified R016 from an upper-case text and one classified R002
C10_Witness ==
    /\ IbkRan
    /\ Len(response.body.results) = 2
    /\ response.body.results[1]["Codigo de Rechazo"] = JStr(<<"R", "0", "1", "6">>)
    /\ RefCellText(local.validRows[1], 14)[1] = "E"
    /\ response.body.results[2]["Codigo de Rechazo"] = JStr(<<"R", "0", "0", "2">>)

(***************************************************************************)
(* C11: the archive path's records correspond one to one, in sheet order,  *)
(* to the matrix rows of 0-based index >= 11 whose column 14 is non-empty  *)
(* after trimming: no earlier row and no row with an empty or blank column *)
(* 14 gives a record, every qualifying row gives exactly one (identifier   *)
(* from column 4, name from column 5, reference from column 7, amount from *)
(* column 13).                                                             *)
(***************************************************************************)
\* row i (0-based) of the archive's sheet, from the file the request names
RefIbkRow(f, i) ==
    IF i < f.preamble THEN PreambleRow(i) ELSE IbkRow(f.body[i - f.preamble + 1], i)

\* column 14 of the row holds a value whose text is not blank
RefHasSituation(row) ==
    /\ Len(row) >= 15
    /\ LET c == row[15]
       IN \/ c.t = "num"
          \/ c.t = "str" /\ RefTrimLeft(c.v) # <<>>

RefQualifying(f) ==
    {i \in 0..(f.preamble + Len(f.body) - 1) : i >= 11 /\ RefHasSituation(RefIbkRow(f, i))}

C11_IbkRowsFrom11WithSituation ==
    IbkRan =>
        LET order == Ascending(RefQualifying(arg.zip))
            rows == response.body.results
        IN /\ Len(rows) = Len(order)
           /\ \A k \in 1..Len(order) :
                 LET row == RefIbkRow(arg.zip, order[k])
                 IN /\ rows[k]["dni/cex"] = JStr(RefCellText(row, 4))
                    /\ rows[k]["nombre"] = JStr(RefCellText(row, 5))
                    /\ rows[k]["Referencia"] = JStr(RefCellText(row, 7))
                    /\ rows[k]["importe"] = JNum(RefCellAmount(row, 13))

\* row 9 (before 11) has a situation and gives nothing, row 11 gives the first
\* record, the blank row 12 gives nothing, row 13 gives the second record
C11_Witness ==
    /\ IbkRan
    /\ arg.zip.preamble = 12
    /\ arg.zip.body = <<"blank", "saldo">>
    /\ RefHasSituation(RefIbkRow(arg.zip, 9))
    /\ RefQualifying(arg.zip) = {11, 13}
    /\ Len(response.body.results) = 2

(***************************************************************************)
(* C12: in the archive path every temporary artifact created during a run  *)
(* (the temporary .zip file and the extraction directory) has been deleted *)
(* by the time the response is returned, on every path: success, failed    *)
(* decompression, no spreadsheet entry in the archive, unreadable          *)
(* spreadsheet.                                                            *)
(***************************************************************************)
C12_TempArtifactsDeleted ==
    (op = "ibk" /\ pc = "done") => disk = {}

(***************************************************************************)
(* C13: every run of a processing handler ends in exactly one of two       *)
(* outcomes: a success payload {results, totalTransactions, totalAmount},  *)
(* or a failure response with status 500 whose body is {error: string}     *)
(* with no results/totalTransactions/totalAmount key; a request missing a  *)
(* required file (pdf or txt, pdf or excel, zip) always ends in the        *)
(* failure outcome, and no response mixes an error with partial results.   *)
(* A run is the handler's try/catch, entered by every request that is not  *)
(* a CORS preflight.                                                       *)
(***************************************************************************)
IsSuccessOutcome(r) ==
    /\ r.status = 200
    /\ DOMAIN r.body = {"results", "totalTransactions", "totalAmount"}

IsFailureOutcome(r) ==
    /\ r.status = 500
    /\ DOMAIN r.body = {"error"}
    /\ r.body.error \in STRING

MissingRequiredFile ==
    \/ op = "txt" /\ (arg.pdf = NoFile \/ arg.txt = NoFile)
    \/ op = "xlsx" /\ (arg.pdf = NoFile \/ arg.excel = NoFile)
    \/ op = "ibk" /\ arg.zip = NoFile

HandlerRan == pc = "done" /\ arg.method # "OPTIONS"

C13_SuccessOrFailureOnly ==
    HandlerRan =>
        /\ IsSuccessOutcome(response) # IsFailureOutcome(response)
        /\ MissingRequiredFile => IsFailureOutcome(response)

\* the PDF names a record and the data file is missing: the run fails with {error} alone
C13_Witness ==
    /\ HandlerRan
    /\ op = "txt"
    /\ arg.form
    /\ arg.pdf # NoFile /\ arg.pdf.markers # <<>>
    /\ arg.txt = NoFile
    /\ response.status = 500
    /\ response.body = [error |-> "Missing files"]

(***************************************************************************)
(* C14: in the two PDF-driven paths (text+PDF and spreadsheet+PDF), when   *)
(* the PDF text contains no record-number marker at all, the run ends with *)
(* the failure outcome ({error} with a failure status) and not with a      *)
(* success payload whose results is empty and whose totals are zero.       *)
(***************************************************************************)
PdfHasNoMarker ==
    /\ op \in {"txt", "xlsx"}
    /\ arg.pdf # NoFile
    /\ MarkerStarts(PdfText(arg.pdf.markers)) = {}

C14_NoMarkerIsFailure ==
    (HandlerRan /\ PdfHasNoMarker) => IsFailureOutcome(response)

(***************************************************************************)
(* C15: in both PDF-driven paths the marker is the word "Registro",        *)
(* whitespace and a run of 1 to 5 digits: every record number captured is  *)
(* the value of at most 5 digits (so lies in 0..99999), and the text path  *)
(* and the spreadsheet path capture the same set of record numbers from    *)
(* the same PDF text (the spreadsheet path's +1 row shift aside), also for *)
(* markers followed by 6 or more digits.                                   *)
(***************************************************************************)
C15_SameMarkersUpTo5Digits ==
    (op = "extract" /\ pc \in {"once", "twice"}) =>
        LET captured == {r - 1 : r \in Elems(ret.rowNumbers)}
        IN /\ Elems(ret.registros) \subseteq 0..99999
           /\ captured \subseteq 0..99999
           /\ captured = Elems(ret.registros)

(***************************************************************************)
(* C16: in the PostBcpXlsx and RechazoIbk components, handleProcess        *)
(* invokes the backend function only when every required file is selected  *)
(* (otherwise it returns without setting loading); every handleProcess run *)
(* that sets loading to true eventually sets loading back to false,        *)
(* whether the invocation succeeds, returns an error, or throws; results   *)
(* are replaced only on success and left unchanged (a previous run's       *)
(* results stay displayed) on failure.                                     *)
(***************************************************************************)
RefRequiredFiles ==
    IF arg.component = "PostBcpXlsx" THEN {local.pdfFile, local.excelFile} ELSE {local.zipFile}

RefFormFiles ==
    IF arg.component = "PostBcpXlsx" THEN {ret.formData.pdf, ret.formData.excel}
    ELSE {ret.formData.zip}

RefInvoked == ret'.pending > ret.pending

RefSettled == ret'.pending < ret.pending

RefFailed(outcome) == outcome.threw \/ outcome.error # JNull

C16_InvokeGuardedLoadingReset ==
    /\ [](op = "ui" /\ ret.formData # JNull => JNull \notin RefFormFiles)
    /\ [][/\ RefInvoked => (JNull \notin RefRequiredFiles /\ local'.loading)
          /\ JNull \in RefRequiredFiles => (~RefInvoked /\ (local'.loading => local.loading))
          /\ RefSettled =>
               /\ ~local'.loading
               /\ RefFailed(ret'.settled) => local'.results = local.results
               /\ ~RefFailed(ret'.settled) => local'.results = ret'.settled.data
          /\ local'.results # local.results => (RefSettled /\ ~RefFailed(ret'.settled))]_vars
    /\ (op = "ui" /\ local.loading) ~> ~local.loading

\* a second run has failed: loading is back to false and the first run's results are still displayed
C16_Witness ==
    /\ op = "ui" /\ pc = "idle"
    /\ ret.settled # NotSettled
    /\ RefFailed(ret.settled)
    /\ ~local.loading
    /\ local.results # JNull
    /\ HasResults(local.results)
    /\ Len(local.results.results) = 1
    /\ response.title = "Error al procesar"

=============================================================================
